---- MODULE Spec2Model ----
(***************************************************************************)
(* Model of src/src/components/Scene3D.tsx: the Scene3D view with its      *)
(* keyboard/focus listeners, the sphere's click handler, the Point Store   *)
(* and the CatmullRomCurve component with its effect, its state and the    *)
(* geometry objects it creates and disposes.                               *)
(*                                                                         *)
(* Scheduling.  Every listener runs to completion.  An update made in a    *)
(* keyboard, blur or click listener is rendered and committed before the   *)
(* next event is delivered, so a listener's action includes that render.   *)
(* Passive effects of a commit run later (a frame may be drawn first) but  *)
(* before any further render; the state update an effect makes             *)
(* (setCurveGeometry) is rendered later still, and frames and events may   *)
(* come in between.                                                        *)
(*                                                                         *)
(* Numbers.  Clicked positions are taken on one diameter of the sphere and *)
(* kept as the signed coordinate along it, in units of the radius: the two *)
(* antipodal points 1 and -1, which may repeat.  Spline values are exact   *)
(* integers in units of 1/(TanScale * N^3), N the number of divisions.     *)
(***************************************************************************)
EXTENDS Integers, Sequences, FiniteSets, TLC

VARIABLES
    mounted,            \* the Scene3D tree is mounted (listeners attached, meshRef.current set)
    focused,            \* the window has focus
    altHeld,            \* the modifier key is physically down
    isControlsEnabled,  \* Scene3D state (line 149)
    altPressed,         \* the prop SphereComponent was last rendered with (line 234)
    lastEvent,          \* the last keyboard/blur event delivered to a listener
    keydownSinceFocus,  \* a keydown was delivered since the window last gained focus
    points,             \* Scene3D state (line 150): the Point Store
    nClicks,            \* clicks delivered to handleClick so far
    lastClick,          \* the last click delivered to handleClick, and what became of it
    accepted,           \* positions of the clicks delivered while not orbiting whose ray hit
    geometries,         \* every BufferGeometry created so far, by creation order
    curveGeometry,      \* CatmullRomCurve state (line 106): index into geometries, 0 = null
    pending,            \* setCurveGeometry updates queued and not yet rendered
    line,               \* geometry of the THREE.Line last committed (0 = component returned null)
    cleanupGeometry,    \* geometry captured by the last effect's cleanup closure (0 = none)
    pc,                 \* "idle", or "effects" when a commit's passive effects are yet to run
    rotationY,          \* meshRef.current.rotation.y, in thousandths of a radian
    lastDraw            \* what the last drawn frame found attached to the line

vars == <<mounted, focused, altHeld, isControlsEnabled, altPressed, lastEvent,
          keydownSinceFocus, points, nClicks, lastClick, accepted, geometries, curveGeometry,
          pending, line, cleanupGeometry, pc, rotationY, lastDraw>>

----------------------------------------------------------------------------
(* Bounds of the model *)

MaxClicks == 4
MaxFrames == 2

(* Program constants *)

SphereRadius == 1
MinDivisions == 50
DivisionsPerPoint == 20
RotationStep == 2
NullGeometry == 0

(* Fixed-point units of the spline arithmetic *)

DtScale == 100
TanScale == 100

Positions == {SphereRadius, -SphereRadius}

Abs(x) == IF x < 0 THEN -x ELSE x

Max(a, b) == IF a > b THEN a ELSE b

\* Division rounding toward zero, as a float-to-fixed conversion truncates.
TruncDiv(n, d) == IF n < 0 THEN -((-n) \div d) ELSE n \div d

----------------------------------------------------------------------------
(* THREE.CatmullRomCurve3 (centripetal, open), as used at lines 116 and 120 *)

\* Math.pow(distanceToSquared, 0.25) in units of 1/DtScale, for the squared
\* distances that occur between points of one diameter.
Pow025(d2) ==
    CASE d2 = 0 -> 0
      [] d2 = 4 * SphereRadius * SphereRadius -> 141
      [] d2 = 16 * SphereRadius * SphereRadius -> 200

DistSq(a, b) == (a - b) * (a - b)

\* t1 of initNonuniformCatmullRom times TanScale:
\* ((x1-x0)/dt0 - (x2-x0)/(dt0+dt1) + (x2-x1)/dt1) * dt1
Tangent1(x0, x1, x2, dt0, dt1) ==
    TruncDiv(TanScale * ((x1 - x0) * dt1 * (dt0 + dt1)
                         - (x2 - x0) * dt1 * dt0
                         + (x2 - x1) * dt0 * (dt0 + dt1)),
             dt0 * (dt0 + dt1))

\* t2 of initNonuniformCatmullRom times TanScale:
\* ((x2-x1)/dt1 - (x3-x1)/(dt1+dt2) + (x3-x2)/dt2) * dt1
Tangent2(x1, x2, x3, dt1, dt2) ==
    TruncDiv(TanScale * ((x2 - x1) * dt2 * (dt1 + dt2)
                         - (x3 - x1) * dt1 * dt2
                         + (x3 - x2) * dt1 * (dt1 + dt2)),
             dt2 * (dt1 + dt2))

\* CubicPoly.init(x1, x2, t1, t2) and calc(k/n), times TanScale * n^3.
CubicCalc(x1, x2, t1, t2, k, n) ==
    LET c0 == TanScale * x1
        c1 == t1
        c2 == TanScale * (3 * x2 - 3 * x1) - 2 * t1 - t2
        c3 == TanScale * (2 * x1 - 2 * x2) + t1 + t2
    IN  c0 * n * n * n + c1 * k * n * n + c2 * k * k * n + c3 * k * k * k

\* getPoint, from the knot intervals on: the safety check for repeated
\* points (dt < 1e-4), then the polynomial at weight k/n.
SegmentPoint(p0, p1, p2, p3, raw0, raw1, raw2, k, n) ==
    LET dt1 == IF raw1 * 10000 < DtScale THEN DtScale ELSE raw1
        dt0 == IF raw0 * 10000 < DtScale THEN dt1 ELSE raw0
        dt2 == IF raw2 * 10000 < DtScale THEN dt1 ELSE raw2
    IN  CubicCalc(p1, p2, Tangent1(p0, p1, p2, dt0, dt1),
                  Tangent2(p1, p2, p3, dt1, dt2), k, n)

\* getPoint, from the segment intPoint and the weight k/n on: the four points
\* of the segment.  Both extrapolations are written into the one shared
\* vector tmp, so when both are taken p0 and p3 are the last one written.
SegmentAt(pts, intPoint, k, n) ==
    LET l == Len(pts)
        extrapolateLast == ~(intPoint + 2 < l)
        tmp == IF extrapolateLast
                 THEN 2 * pts[l] - pts[l - 1]
                 ELSE 2 * pts[1] - pts[2]
        p0 == IF intPoint > 0 THEN pts[intPoint] ELSE tmp
        p1 == pts[intPoint + 1]
        p2 == pts[intPoint + 2]
        p3 == IF extrapolateLast THEN tmp ELSE pts[intPoint + 3]
    IN  SegmentPoint(p0, p1, p2, p3, Pow025(DistSq(p0, p1)),
                     Pow025(DistSq(p1, p2)), Pow025(DistSq(p2, p3)), k, n)

\* curve.getPoint(i / n) for the control points pts: p = (l - 1) * i / n,
\* intPoint = floor(p), weight = p - intPoint, the last point taken as the
\* end of the last segment.
GetPoint(pts, i, n) ==
    LET p == (Len(pts) - 1) * i
    IN  IF p % n = 0 /\ p \div n = Len(pts) - 1
          THEN SegmentAt(pts, Len(pts) - 2, n, n)
          ELSE SegmentAt(pts, p \div n, p % n, n)

\* curve.getPoints(divisions): divisions + 1 points.
GetPoints(pts, divisions) ==
    [d \in 1..(divisions + 1) |-> GetPoint(pts, d - 1, divisions)]

----------------------------------------------------------------------------
(* CatmullRomCurve's effect, lines 108-136 *)

numPoints_Min(n) ==
    IF MinDivisions < n * DivisionsPerPoint
      THEN MinDivisions ELSE n * DivisionsPerPoint

\* line 119: Math.max(50, points.length * 20)
numPoints(n) == Max(MinDivisions, n * DivisionsPerPoint)

\* Vector3.normalize(): divideScalar(length() || 1)
Normalize(v) == TruncDiv(v, IF Abs(v) = 0 THEN 1 ELSE Abs(v))

\* lines 123-126: point.clone().normalize().multiplyScalar(sphereRadius)
projectedPoints(interpolatedPoints, sphereRadius) ==
    [d \in DOMAIN interpolatedPoints |->
        Normalize(interpolatedPoints[d]) * sphereRadius]

\* lines 115-129: the geometry built from the store's positions
NewGeometry(pts, sphereRadius) ==
    LET curvePoints == [j \in DOMAIN pts |-> pts[j].position]
        interpolatedPoints == GetPoints(curvePoints, numPoints(Len(pts)))
    IN  [position |-> projectedPoints(interpolatedPoints, sphereRadius),
         disposed |-> FALSE]

EffectCleanup_NoDispose(geoms, g) == geoms

\* lines 133-135: the cleanup closure disposes the geometry it captured
EffectCleanup(geoms, g) ==
    IF g = NullGeometry THEN geoms
    ELSE [geoms EXCEPT ![g].disposed = TRUE]

\* lines 109-130: the effect body; yields the heap, the update it queues and
\* the geometry its cleanup closure captures (none on the early return)
EffectBody(geoms, pts, queue, sphereRadius) ==
    IF Len(pts) < 2
      THEN [geometries |-> geoms,
            pending |-> Append(queue, NullGeometry),
            cleanup |-> NullGeometry]
      ELSE [geometries |-> Append(geoms, NewGeometry(pts, sphereRadius)),
            pending |-> Append(queue, Len(geoms) + 1),
            cleanup |-> Len(geoms) + 1]

InitialCurveGeometry_Empty ==
    [heap |-> <<[position |-> <<>>, disposed |-> FALSE]>>, ref |-> 1]

\* line 106: useState(null); the objects the initial value brings with it
InitialCurveGeometry == [heap |-> <<>>, ref |-> NullGeometry]

\* lines 138-145: null without a geometry, else a THREE.Line holding it
RenderLine(geometry) ==
    IF geometry = NullGeometry THEN NullGeometry ELSE geometry

----------------------------------------------------------------------------
(* Scene3D, lines 148-249 *)

\* lines 153-157
handleKeyDown(event, enabled) == IF event.altKey THEN TRUE ELSE enabled

handleKeyUp_Inverted(event, enabled) == IF event.altKey THEN FALSE ELSE enabled

\* lines 159-163
handleKeyUp(event, enabled) == IF ~event.altKey THEN FALSE ELSE enabled

handleBlur_NoReset(enabled) == enabled

\* lines 165-167
handleBlur(enabled) == FALSE

handleSphereClick_Prepend(prev, position) ==
    <<[id |-> Len(prev) + 1, position |-> position]>> \o prev

\* lines 180-186: setPoints(prev => [...prev, newPoint]); the id is a fresh
\* stamp, here the point's serial number
handleSphereClick(prev, position) ==
    Append(prev, [id |-> Len(prev) + 1, position |-> position])

\* line 234: altPressed={isControlsEnabled}
AltPressedProp(enabled) == enabled

(* SphereComponent, lines 17-65 *)

handleClick_NoGate(pressed, meshRef, prev, event) ==
    IF ~meshRef
      THEN [stopPropagation |-> FALSE, points |-> prev]
      ELSE [stopPropagation |-> TRUE,
            points |-> IF event.hit
                         THEN handleSphereClick(prev, event.position)
                         ELSE prev]

\* lines 28-47: what the handler does to the event and to the store
handleClick(pressed, meshRef, prev, event) ==
    IF pressed \/ ~meshRef
      THEN [stopPropagation |-> FALSE, points |-> prev]
      ELSE [stopPropagation |-> TRUE,
            points |-> IF event.hit
                         THEN handleSphereClick(prev, event.position)
                         ELSE prev]

----------------------------------------------------------------------------
(* Initial state: mounted; the mount effect has run on the empty store and *)
(* queued its setCurveGeometry(null)                                       *)

Init ==
    /\ mounted = TRUE
    /\ focused = TRUE
    /\ altHeld \in BOOLEAN
    /\ isControlsEnabled = FALSE
    /\ altPressed = FALSE
    /\ lastEvent = [type |-> "none", altKey |-> FALSE]
    /\ keydownSinceFocus = FALSE
    /\ points = <<>>
    /\ nClicks = 0
    /\ lastClick = [hit |-> FALSE, orbit |-> FALSE, stopPropagation |-> FALSE]
    /\ accepted = <<>>
    /\ geometries = InitialCurveGeometry.heap
    /\ curveGeometry = InitialCurveGeometry.ref
    /\ pending = <<NullGeometry>>
    /\ line = RenderLine(InitialCurveGeometry.ref)
    /\ cleanupGeometry = NullGeometry
    /\ pc = "idle"
    /\ rotationY = 0
    /\ lastDraw = [geometry |-> NullGeometry, disposed |-> FALSE]

curveVars == <<geometries, curveGeometry, pending, cleanupGeometry>>
clickVars == <<points, nClicks, lastClick, accepted>>
frameVars == <<rotationY, lastDraw>>

\* A listener of lines 169-171 runs on event and Scene3D re-renders.
Deliver(event, enabled) ==
    /\ isControlsEnabled' = enabled
    /\ altPressed' = AltPressedProp(enabled)
    /\ lastEvent' = event
    /\ keydownSinceFocus' = IF event.type = "keydown" THEN TRUE
                            ELSE IF event.type = "blur" THEN FALSE
                            ELSE keydownSinceFocus
    /\ line' = RenderLine(curveGeometry)
    /\ UNCHANGED <<mounted, clickVars, curveVars, pc, frameVars>>

Listening == mounted /\ pc = "idle"

\* The modifier goes down (or auto-repeats); the window sees it only with focus.
ModifierDown ==
    /\ Listening
    /\ altHeld' = TRUE
    /\ UNCHANGED focused
    /\ IF focused
         THEN LET event == [type |-> "keydown", altKey |-> TRUE]
              IN  Deliver(event, handleKeyDown(event, isControlsEnabled))
         ELSE UNCHANGED <<isControlsEnabled, altPressed, lastEvent, line,
                          keydownSinceFocus, mounted, clickVars, curveVars,
                          pc, frameVars>>

\* The modifier is released; the window sees it only with focus.
ModifierUp ==
    /\ Listening
    /\ altHeld
    /\ altHeld' = FALSE
    /\ UNCHANGED focused
    /\ IF focused
         THEN LET event == [type |-> "keyup", altKey |-> FALSE]
              IN  Deliver(event, handleKeyUp(event, isControlsEnabled))
         ELSE UNCHANGED <<isControlsEnabled, altPressed, lastEvent, line,
                          keydownSinceFocus, mounted, clickVars, curveVars,
                          pc, frameVars>>

\* Another key goes down in the focused window.
OtherKeyDown ==
    /\ Listening
    /\ focused
    /\ UNCHANGED <<altHeld, focused>>
    /\ LET event == [type |-> "keydown", altKey |-> altHeld]
       IN  Deliver(event, handleKeyDown(event, isControlsEnabled))

\* Another key is released in the focused window.
OtherKeyUp ==
    /\ Listening
    /\ focused
    /\ UNCHANGED <<altHeld, focused>>
    /\ LET event == [type |-> "keyup", altKey |-> altHeld]
       IN  Deliver(event, handleKeyUp(event, isControlsEnabled))

\* The window loses focus.
Blur ==
    /\ Listening
    /\ focused
    /\ focused' = FALSE
    /\ UNCHANGED altHeld
    /\ Deliver([type |-> "blur", altKey |-> FALSE],
               handleBlur(isControlsEnabled))

\* The window regains focus: no listener is registered for it.
Focus ==
    /\ Listening
    /\ ~focused
    /\ focused' = TRUE
    /\ keydownSinceFocus' = FALSE
    /\ UNCHANGED <<mounted, altHeld, isControlsEnabled, altPressed, lastEvent,
                   clickVars, curveVars, line, pc, frameVars>>

\* A click on the sphere mesh at position; hit is whether the handler's own
\* ray intersects the mesh.  Scene3D re-renders when the store changed.
Click ==
    /\ Listening
    /\ focused
    /\ nClicks < MaxClicks
    /\ \E position \in Positions, hit \in BOOLEAN :
         LET event == [position |-> position, hit |-> hit]
             done == handleClick(altPressed, mounted, points, event)
         IN  /\ points' = done.points
             /\ nClicks' = nClicks + 1
             /\ lastClick' = [hit |-> hit, orbit |-> isControlsEnabled,
                              stopPropagation |-> done.stopPropagation]
             /\ accepted' = IF ~isControlsEnabled /\ hit
                              THEN Append(accepted, position)
                              ELSE accepted
             /\ pc' = IF done.points # points THEN "effects" ELSE "idle"
    /\ line' = RenderLine(curveGeometry)
    /\ UNCHANGED <<mounted, focused, altHeld, isControlsEnabled, altPressed,
                   lastEvent, keydownSinceFocus, curveVars, frameVars>>

\* The passive effects of the last commit: the previous cleanup, then the body.
RunEffects ==
    /\ mounted
    /\ pc = "effects"
    /\ \E out \in {EffectBody(EffectCleanup(geometries, cleanupGeometry),
                                points, pending, SphereRadius)} :
           /\ geometries' = out.geometries
           /\ pending' = out.pending
           /\ cleanupGeometry' = out.cleanup
    /\ pc' = "idle"
    /\ UNCHANGED <<mounted, focused, altHeld, isControlsEnabled, altPressed,
                   lastEvent, keydownSinceFocus, clickVars, curveGeometry,
                   line, frameVars>>

\* CatmullRomCurve re-renders with the queued setCurveGeometry updates.
Rerender ==
    /\ Listening
    /\ pending # <<>>
    /\ curveGeometry' = pending[Len(pending)]
    /\ pending' = <<>>
    /\ line' = RenderLine(curveGeometry')
    /\ UNCHANGED <<mounted, focused, altHeld, isControlsEnabled, altPressed,
                   lastEvent, keydownSinceFocus, clickVars, geometries,
                   cleanupGeometry, pc, frameVars>>

\* lines 21-26, then the frame is drawn with whatever the line holds.
Frame ==
    /\ mounted
    /\ rotationY < MaxFrames * RotationStep
    /\ rotationY' = rotationY + RotationStep
    /\ lastDraw' = [geometry |-> line,
                    disposed |-> line # NullGeometry
                                 /\ geometries[line].disposed]
    /\ UNCHANGED <<mounted, focused, altHeld, isControlsEnabled, altPressed,
                   lastEvent, keydownSinceFocus, clickVars, curveVars, line,
                   pc>>

\* The scene unmounts: listeners removed (lines 173-177), last cleanup run.
Unmount ==
    /\ Listening
    /\ mounted' = FALSE
    /\ geometries' = EffectCleanup(geometries, cleanupGeometry)
    /\ cleanupGeometry' = NullGeometry
    /\ pending' = <<>>
    /\ line' = NullGeometry
    /\ UNCHANGED <<focused, altHeld, isControlsEnabled, altPressed, lastEvent,
                   keydownSinceFocus, clickVars, curveGeometry, pc, frameVars>>

Next ==
    \/ ModifierDown
    \/ ModifierUp
    \/ OtherKeyDown
    \/ OtherKeyUp
    \/ Blur
    \/ Focus
    \/ Click
    \/ RunEffects
    \/ Rerender
    \/ Frame
    \/ Unmount

Spec == Init /\ [][Next]_vars

----------------------------------------------------------------------------
(* Properties *)

PositionsOf(pts) == [j \in DOMAIN pts |-> pts[j].position]

Undisposed == {g \in DOMAIN geometries : ~geometries[g].disposed}

\* C1: a click delivered to the sphere's handler while isControlsEnabled is
\* true leaves the Point Store exactly as it was.
C1_OrbitClickLeavesStore ==
    [][(nClicks' # nClicks /\ isControlsEnabled) => points' = points]_vars

C1_Witness ==
    /\ nClicks > 0
    /\ lastClick.orbit
    /\ lastClick.hit
    /\ Len(points) > 0

\* C2: the Point Store is, in click order, the positions of the clicks that
\* were delivered while not orbiting and whose ray hit the sphere; a step
\* either leaves the store alone or appends one point after the stored ones.
C2_StoreIsAcceptedClicks ==
    /\ [](PositionsOf(points) = accepted)
    /\ [][\/ points' = points
          \/ /\ Len(points') = Len(points) + 1
             /\ SubSeq(points', 1, Len(points)) = points]_vars

C2_Witness ==
    /\ Len(points) = 3
    /\ nClicks = 4
    /\ PositionsOf(points) = <<SphereRadius, -SphereRadius, SphereRadius>>

\* C3: after a keydown with the modifier active isControlsEnabled is true,
\* after a keyup with the modifier inactive or a blur it is false, whatever
\* it was before.
C3_LastEventDecides ==
    /\ (lastEvent.type = "keydown" /\ lastEvent.altKey) => isControlsEnabled
    /\ (lastEvent.type = "keyup" /\ ~lastEvent.altKey) => ~isControlsEnabled
    /\ lastEvent.type = "blur" => ~isControlsEnabled

C3_Witness ==
    /\ lastEvent.type = "blur"
    /\ altHeld
    /\ ~isControlsEnabled

\* C4 as claimed: isControlsEnabled is true exactly when the modifier is
\* physically held and the window has focus.
C4_EnabledIffHeldAndFocused ==
    isControlsEnabled <=> (altHeld /\ focused)

\* C4 as amended: isControlsEnabled is true exactly when the modifier is held,
\* the window has focus and a keydown has been delivered since the window
\* last gained focus (or since the scene mounted).
C4_EnabledIffHeldFocusedAndSeen ==
    isControlsEnabled <=> (altHeld /\ focused /\ keydownSinceFocus)

C4_Witness ==
    /\ altHeld
    /\ focused
    /\ ~keydownSinceFocus
    /\ lastEvent.type = "blur"
    /\ ~isControlsEnabled

\* C5: a click delivered to the sphere's handler while isControlsEnabled is
\* true has its propagation stopped.
C5_OrbitClickStopped ==
    (nClicks > 0 /\ lastClick.orbit) => lastClick.stopPropagation

\* C6: every geometry but the one created last has been disposed, so at
\* most one is undisposed, and none is once the scene has unmounted.
C6_SupersededDisposed ==
    /\ \A g \in DOMAIN geometries : g < Len(geometries) => geometries[g].disposed
    /\ Cardinality(Undisposed) <= 1
    /\ ~mounted => Undisposed = {}

C6_Witness ==
    /\ mounted
    /\ Len(geometries) >= 3
    /\ Undisposed = {Len(geometries)}

\* C7: every sample of every curve geometry lies at the sphere radius from
\* the origin.
C7_SamplesOnSphere ==
    \A g \in DOMAIN geometries :
        \A d \in DOMAIN geometries[g].position :
            Abs(geometries[g].position[d]) = SphereRadius

\* C8: while the Point Store holds 0 or 1 points the curve geometry is null,
\* no geometry exists, no line is rendered and no frame has drawn one.
C8_NoCurveBelowTwo ==
    Len(points) < 2 =>
        /\ curveGeometry = 0
        /\ geometries = <<>>
        /\ line = 0
        /\ lastDraw.geometry = 0

C8_Witness ==
    /\ Len(points) = 1
    /\ pc = "idle"
    /\ pending = <<>>
    /\ rotationY > 0

\* C9: once the effect has run for a store of n >= 2 points, the geometry it
\* made has at least max(50, 20 n) samples; three points rendered give a
\* non-null curve geometry of at least 60 samples.
C9_SampleCount ==
    /\ (mounted /\ pc = "idle" /\ Len(points) >= 2) =>
          /\ cleanupGeometry # 0
          /\ Len(geometries[cleanupGeometry].position) >= 50
          /\ Len(geometries[cleanupGeometry].position) >= 20 * Len(points)
    /\ (mounted /\ pc = "idle" /\ pending = <<>> /\ Len(points) = 3) =>
          /\ curveGeometry # 0
          /\ Len(geometries[curveGeometry].position) >= 60

C9_Witness ==
    /\ mounted
    /\ pc = "idle"
    /\ pending = <<>>
    /\ Len(points) = 3
    /\ curveGeometry # 0

\* C10: no frame is drawn while the line holds a disposed geometry.
C10_NeverDrawDisposed ==
    ~lastDraw.disposed

====
